---- MODULE Spec2Model ----
(***************************************************************************)
(* Model of pyet's quantity calculators (pyet/meteo_utils.py) and of the   *)
(* combination PET formulas built on them (pyet/combination.py).           *)
(*                                                                         *)
(* Every calculator is a pure function, so the state machine is a call     *)
(* log: one action per modelled function draws the arguments from bounded  *)
(* sets, applies the function and records the arguments and the outcome.   *)
(*                                                                         *)
(* Floating point numbers are modelled in fixed point with SCALE units per *)
(* 1.0 (truncating toward zero) plus the IEEE specials nan, inf and -inf.  *)
(* Python values are None, a Python scalar, a numpy scalar (the result of  *)
(* a numpy ufunc applied to a scalar), a pandas Series (a sequence of      *)
(* floats over one index) or a raised exception.                           *)
(***************************************************************************)
EXTENDS Integers, Sequences, FiniteSets, TLC

\* Fixed-point resolution: 1.0 is SCALE units.
SCALE == 10000

-----------------------------------------------------------------------------
(* Integer helpers on naturals; every intermediate stays below 2^31.       *)

Abs(i) == IF i < 0 THEN -i ELSE i

Sgn(i) == IF i < 0 THEN -1 ELSE IF i > 0 THEN 1 ELSE 0

\* floor(a*b/SCALE) for a, b >= 0
MulS(a, b) ==
    LET ah == a \div SCALE
        al == a % SCALE
        bh == b \div SCALE
        bl == b % SCALE
    IN  ah * bh * SCALE + ah * bl + al * bh + ((al * bl) \div SCALE)

\* one decimal digit of long division: state <<quotient, remainder>>
DivStep(qr, b) == << qr[1] * 10 + ((qr[2] * 10) \div b), (qr[2] * 10) % b >>

RECURSIVE DivS(_, _)
\* floor(a*SCALE/b) for a >= 0, b > 0 (SCALE = 10^4: four digits); a divisor
\* too wide for the digit steps first drops its last digit
DivS(a, b) ==
    IF b >= 200000000 THEN DivS(a, b \div 10) \div 10
    ELSE DivStep(DivStep(DivStep(DivStep(<< a \div b, a % b >>, b), b), b),
                 b)[1]

\* signed fixed-point product and quotient
XMul(a, b) == Sgn(a) * Sgn(b) * MulS(Abs(a), Abs(b))

XDiv(a, b) == Sgn(a) * Sgn(b) * DivS(Abs(a), Abs(b))

\* fixed-point image of the decimal literal num/den
Lit(num, den) == Sgn(num) * DivS(Abs(num), den)

RECURSIVE ScaleN(_, _, _)
\* floor(a*num/den) for a >= 0 and den a power of 1000 (or below 1000): the
\* product with a literal that has more decimals than SCALE resolves
ScaleN(a, num, den) ==
    IF den > 1000
    THEN ScaleN((a \div 1000) * num + (((a % 1000) * num) \div 1000), 1,
                den \div 1000)
    ELSE (a \div den) * num + (((a % den) * num) \div den)

XScale(a, num, den) == Sgn(a) * Sgn(num) * ScaleN(Abs(a), Abs(num), den)

-----------------------------------------------------------------------------
(* exp and log in fixed point.                                             *)

RECURSIVE ExpSeries(_, _, _, _)
\* Taylor series of exp(x), 0 <= x < 1: acc + term*x/k + ...
ExpSeries(x, term, k, acc) ==
    IF term = 0 \/ k > 16 THEN acc
    ELSE LET nt == MulS(term, x) \div k
         IN  ExpSeries(x, nt, k + 1, acc + nt)

RECURSIVE ExpPos(_)
\* exp(x), x >= 0 (e is 2.7183)
ExpPos(x) ==
    IF x >= SCALE THEN MulS(27183, ExpPos(x - SCALE))
    ELSE ExpSeries(x, SCALE, 1, SCALE)

XExp(x) == IF x >= 0 THEN ExpPos(x) ELSE DivS(SCALE, ExpPos(-x))

RECURSIVE AtanhSeries(_, _, _, _)
\* y + y^3/3 + y^5/5 + ..., 0 <= y < 1/3
AtanhSeries(y2, pw, k, acc) ==
    IF pw = 0 \/ k > 21 THEN acc
    ELSE AtanhSeries(y2, MulS(pw, y2), k + 2, acc + (pw \div k))

RECURSIVE XLn(_)
\* ln(x), x > 0 (ln 2 is 0.6931)
XLn(x) ==
    IF x >= 2 * SCALE THEN 6931 + XLn(x \div 2)
    ELSE IF x < SCALE THEN XLn(2 * x) - 6931
    ELSE LET y == DivS(x - SCALE, x + SCALE)
         IN  2 * AtanhSeries(MulS(y, y), y, 1, 0)

-----------------------------------------------------------------------------
(* sin, cos and arccos in fixed point.                                     *)

\* numpy.pi
Pi == 31416

\* an angle brought into [-pi/2, pi/2] with the same sine
Mirror(y) ==
    IF y > Pi \div 2 THEN Pi - y
    ELSE IF y < -(Pi \div 2) THEN -Pi - y
    ELSE y

Reduce(x) == Mirror(((x + Pi) % (2 * Pi)) - Pi)

RECURSIVE SinSeries(_, _, _, _)
\* Taylor series of sin: acc - term*x2/((k+1)(k+2)) + ...
SinSeries(x2, term, k, acc) ==
    IF term = 0 \/ k > 15 THEN acc
    ELSE LET nt == -Sgn(term) * (MulS(Abs(term), x2) \div ((k + 1) * (k + 2)))
         IN  SinSeries(x2, nt, k + 2, acc + nt)

SinR(r) == SinSeries(MulS(Abs(r), Abs(r)), r, 1, r)

XSin(x) == SinR(Reduce(x))

XCos(x) == XSin(x + Pi \div 2)

RECURSIVE ArccosBisect(_, _, _)
\* the angle of [lo, hi] within [0, pi] whose cosine is x (cos decreases)
ArccosBisect(x, lo, hi) ==
    IF hi - lo <= 1 THEN hi
    ELSE IF XCos((lo + hi) \div 2) > x
         THEN ArccosBisect(x, (lo + hi) \div 2, hi)
         ELSE ArccosBisect(x, lo, (lo + hi) \div 2)

\* arccos(x), -1 <= x <= 1
XArccos(x) ==
    IF x >= SCALE THEN 0
    ELSE IF x <= -SCALE THEN Pi
    ELSE ArccosBisect(x, 0, Pi)

-----------------------------------------------------------------------------
(* IEEE floats: a finite fixed-point number or nan, inf, ninf (-inf).      *)

Fin(n) == [c |-> "fin", n |-> n]
NaN == [c |-> "nan", n |-> 0]
Inf == [c |-> "inf", n |-> 0]
NInf == [c |-> "ninf", n |-> 0]

IsFin(f) == f.c = "fin"
IsNaN(f) == f.c = "nan"

FSgn(f) == IF f.c = "inf" THEN 1 ELSE IF f.c = "ninf" THEN -1 ELSE Sgn(f.n)

SignedInf(s) == IF s > 0 THEN Inf ELSE IF s < 0 THEN NInf ELSE NaN

FNeg(f) ==
    IF f.c = "fin" THEN Fin(-f.n)
    ELSE IF f.c = "inf" THEN NInf
    ELSE IF f.c = "ninf" THEN Inf
    ELSE NaN

FAdd(x, y) ==
    IF IsNaN(x) \/ IsNaN(y) THEN NaN
    ELSE IF IsFin(x) /\ IsFin(y) THEN Fin(x.n + y.n)
    ELSE IF IsFin(x) THEN y
    ELSE IF IsFin(y) THEN x
    ELSE IF x.c = y.c THEN x
    ELSE NaN

FSub(x, y) == FAdd(x, FNeg(y))

FMul(x, y) ==
    IF IsNaN(x) \/ IsNaN(y) THEN NaN
    ELSE IF IsFin(x) /\ IsFin(y) THEN Fin(XMul(x.n, y.n))
    ELSE SignedInf(FSgn(x) * FSgn(y))

\* IEEE division (numpy): x/0 is +-inf, 0/0 is nan, no exception
FDiv(x, y) ==
    IF IsNaN(x) \/ IsNaN(y) THEN NaN
    ELSE IF IsFin(x) /\ IsFin(y)
         THEN IF y.n = 0 THEN SignedInf(Sgn(x.n)) ELSE Fin(XDiv(x.n, y.n))
    ELSE IF IsFin(x) THEN Fin(0)
    ELSE IF IsFin(y) THEN SignedInf(FSgn(x) * (IF y.n < 0 THEN -1 ELSE 1))
    ELSE NaN

FExp(x) ==
    IF IsNaN(x) THEN NaN
    ELSE IF x.c = "inf" THEN Inf
    ELSE IF x.c = "ninf" THEN Fin(0)
    ELSE Fin(XExp(x.n))

\* numpy log: log(0) = -inf, log(negative) = nan, no exception
FLog(x) ==
    IF IsNaN(x) \/ x.c = "ninf" THEN NaN
    ELSE IF x.c = "inf" THEN Inf
    ELSE IF x.n = 0 THEN NInf
    ELSE IF x.n < 0 THEN NaN
    ELSE Fin(XLn(x.n))

\* numpy sin, cos, tan: nan for an infinite argument
FSin(x) == IF IsFin(x) THEN Fin(XSin(x.n)) ELSE NaN

FCos(x) == IF IsFin(x) THEN Fin(XCos(x.n)) ELSE NaN

\* numpy arccos: nan outside [-1, 1], no exception
FArccos(x) ==
    IF ~IsFin(x) \/ x.n > SCALE \/ x.n < -SCALE THEN NaN
    ELSE Fin(XArccos(x.n))

\* x ** y: the square of any finite base, else exp(y * ln x) for a positive
\* finite base
FPow(x, y) ==
    IF IsNaN(x) \/ IsNaN(y) THEN NaN
    ELSE IF IsFin(x) /\ IsFin(y) /\ y.n = 2 * SCALE THEN Fin(XMul(x.n, x.n))
    ELSE IF IsFin(x) /\ IsFin(y) /\ x.n > 0 THEN Fin(XExp(XMul(y.n, XLn(x.n))))
    ELSE IF IsFin(x) /\ IsFin(y) /\ x.n = 0 /\ y.n > 0 THEN Fin(0)
    ELSE NaN

\* (num/den) * x for a decimal literal num/den
FScale(x, num, den) ==
    IF IsFin(x) THEN Fin(XScale(x.n, num, den))
    ELSE IF IsNaN(x) THEN NaN
    ELSE SignedInf(FSgn(x) * Sgn(num))

FTan(x) == FDiv(FSin(x), FCos(x))

FFun(f, x) ==
    CASE f = "exp" -> FExp(x)
      [] f = "log" -> FLog(x)

-----------------------------------------------------------------------------
(* Python values.                                                          *)

None == [k |-> "None"]
Py(f) == [k |-> "py", v |-> f]
Np(f) == [k |-> "np", v |-> f]
Ser(s) == [k |-> "series", v |-> s]
Raise(e) == [k |-> "raise", exc |-> e]

\* Python scalar literal num/den, e.g. Num(1013, 10) is 101.3
Num(num, den) == Py(Fin((num * SCALE) \div den))

IsNone(x) == x.k = "None"
IsRaise(x) == x.k = "raise"
IsSeries(x) == x.k = "series"
IsScalar(x) == x.k \in {"py", "np"}

\* element i of a value broadcast against a Series
Elem(x, i) == IF IsSeries(x) THEN x.v[i] ELSE x.v

\* the result of a binary operation: a Series when an operand is one, a
\* Python scalar when both are, else a numpy scalar; vals are its elements
Pack(x, y, vals) ==
    IF IsSeries(x) \/ IsSeries(y) THEN Ser(vals)
    ELSE IF x.k = "py" /\ y.k = "py" THEN Py(vals[1])
    ELSE Np(vals[1])

\* x op y with Python/numpy/pandas semantics.  Operands are evaluated left
\* to right, so the left operand's exception wins, and None supports no
\* arithmetic: Bad tells that the operation fails, Failure how.
Bad(x, y) == IsRaise(x) \/ IsRaise(y) \/ IsNone(x) \/ IsNone(y)

Failure(x, y) ==
    IF IsRaise(x) THEN x ELSE IF IsRaise(y) THEN y ELSE Raise("TypeError")

\* number of elements of the result
Width(x, y) ==
    IF IsSeries(x) THEN Len(x.v) ELSE IF IsSeries(y) THEN Len(y.v) ELSE 1

Add(x, y) ==
    IF Bad(x, y) THEN Failure(x, y)
    ELSE Pack(x, y, [i \in 1..Width(x, y) |-> FAdd(Elem(x, i), Elem(y, i))])

Sub(x, y) ==
    IF Bad(x, y) THEN Failure(x, y)
    ELSE Pack(x, y, [i \in 1..Width(x, y) |-> FSub(Elem(x, i), Elem(y, i))])

Mul(x, y) ==
    IF Bad(x, y) THEN Failure(x, y)
    ELSE Pack(x, y, [i \in 1..Width(x, y) |-> FMul(Elem(x, i), Elem(y, i))])

Pow(x, y) ==
    IF Bad(x, y) THEN Failure(x, y)
    ELSE Pack(x, y, [i \in 1..Width(x, y) |-> FPow(Elem(x, i), Elem(y, i))])

\* a Python scalar divided by a Python zero raises; numpy divides as IEEE
Div(x, y) ==
    IF Bad(x, y) THEN Failure(x, y)
    ELSE IF x.k = "py" /\ y.k = "py" /\ IsFin(y.v) /\ y.v.n = 0
    THEN Raise("ZeroDivisionError")
    ELSE Pack(x, y, [i \in 1..Width(x, y) |-> FDiv(Elem(x, i), Elem(y, i))])

\* literal * x for the decimal literal num/den (a Python float)
LitMul(num, den, x) ==
    IF IsRaise(x) THEN x
    ELSE IF IsNone(x) THEN Raise("TypeError")
    ELSE IF IsSeries(x)
         THEN Ser([i \in 1..Len(x.v) |-> FScale(x.v[i], num, den)])
    ELSE [k |-> x.k, v |-> FScale(x.v, num, den)]

\* a numpy ufunc (exp, log): a scalar becomes a numpy scalar
UFunc(f, x) ==
    IF IsRaise(x) THEN x
    ELSE IF IsNone(x) THEN Raise("TypeError")
    ELSE IF IsSeries(x) THEN Ser([i \in 1..Len(x.v) |-> FFun(f, x.v[i])])
    ELSE Np(FFun(f, x.v))

exp(x) == UFunc("exp", x)
log(x) == UFunc("log", x)

\* float comparisons: false whenever an operand is nan
FGt(x, y) ==
    IF IsNaN(x) \/ IsNaN(y) THEN FALSE
    ELSE IF x.c = "inf" THEN y.c # "inf"
    ELSE IF x.c = "ninf" THEN FALSE
    ELSE IF y.c = "inf" THEN FALSE
    ELSE IF y.c = "ninf" THEN TRUE
    ELSE x.n > y.n

FLt(x, y) == FGt(y, x)

\* bool(x) as an if-condition evaluates it: None and zero are false, a
\* pandas Series has no truth value ("ValueError")
Truth(x) ==
    IF IsNone(x) THEN "False"
    ELSE IF IsSeries(x) THEN "ValueError"
    ELSE IF IsFin(x.v) /\ x.v.n = 0 THEN "False"
    ELSE "True"

\* the outcome of a statement sequence: the first exception raised by a
\* statement of stmts, else the value of the return expression
Run(stmts, ret) ==
    IF \E i \in 1..Len(stmts) : IsRaise(stmts[i])
    THEN stmts[CHOOSE i \in 1..Len(stmts) :
                  /\ IsRaise(stmts[i])
                  /\ \A j \in 1..(i - 1) : ~IsRaise(stmts[j])]
    ELSE ret

-----------------------------------------------------------------------------
(* pyet/meteo_utils.py                                                     *)

calc_lambda(tmean) == Sub(Num(2501, 1000), LitMul(2361, 1000000, tmean))

calc_e0(tmean) ==
    Mul(Num(6108, 10000),
        exp(Div(Mul(Num(1727, 100), tmean), Add(tmean, Num(2373, 10)))))

\* return CP * pressure / (0.622 * lambd)
calc_psy_return(lambd, pressure) ==
    Run(<<lambd>>,
        Div(LitMul(1013, 1000000, pressure), Mul(Num(622, 1000), lambd)))

calc_psy(pressure, tmean) ==
    IF IsNone(tmean) THEN LitMul(665, 1000000, pressure)
    ELSE calc_psy_return(calc_lambda(tmean), pressure)

\* return 4098 * es / (tmean + 237.3) ** 2
calc_vpc_return(es, tmean) ==
    Run(<<es>>,
        Div(Mul(Num(4098, 1), es),
            Mul(Add(tmean, Num(2373, 10)), Add(tmean, Num(2373, 10)))))

calc_vpc(tmean) == calc_vpc_return(calc_e0(tmean), tmean)

\* calc_press testing the truth of pressure instead of `is None`
calc_press_truthy(elevation, pressure) ==
    IF Truth(pressure) = "ValueError" THEN Raise("ValueError")
    ELSE IF Truth(pressure) = "False"
    THEN Mul(Num(1013, 10),
             Pow(Div(Sub(Num(293, 1), Mul(Num(65, 10000), elevation)),
                     Num(293, 1)),
                 Num(526, 100)))
    ELSE pressure

calc_press(elevation, pressure) ==
    IF IsNone(pressure)
    THEN Mul(Num(1013, 10),
             Pow(Div(Sub(Num(293, 1), Mul(Num(65, 10000), elevation)),
                     Num(293, 1)),
                 Num(526, 100)))
    ELSE pressure

\* tkv = (273.16 + tmean) * (1 - 0.378 * ea / pressure) ** -1;
\* return 3.486 * pressure / tkv
calc_rho(pressure, tmean, ea) ==
    Div(Mul(Num(3486, 1000), pressure),
        Mul(Add(Num(27316, 100), tmean),
            Pow(Sub(Num(1, 1), Div(Mul(Num(378, 1000), ea), pressure)),
                Num(-1, 1))))

\* return (eamax + eamin) / 2
calc_es_return(eamax, eamin) ==
    Run(<<eamax, eamin>>, Div(Add(eamax, eamin), Num(2, 1)))

\* calc_es averaging only when both extremes are given
calc_es_both(tmean, tmax, tmin) ==
    IF ~IsNone(tmax) /\ ~IsNone(tmin)
    THEN calc_es_return(calc_e0(tmax), calc_e0(tmin))
    ELSE calc_e0(tmean)

calc_es(tmean, tmax, tmin) ==
    IF ~IsNone(tmax) THEN calc_es_return(calc_e0(tmax), calc_e0(tmin))
    ELSE calc_e0(tmean)

\* eq. 11: return (esmin * rhmax / 200) + (esmax * rhmin / 200)
calc_ea_eq11(esmax, esmin, rhmax, rhmin) ==
    Run(<<esmax, esmin>>,
        Add(Div(Mul(esmin, rhmax), Num(200, 1)),
            Div(Mul(esmax, rhmin), Num(200, 1))))

\* eq. 14 answering a missing rh with nan
calc_ea_eq14_nan(es, rh) ==
    IF IsNone(rh) THEN Py(NaN) ELSE Run(<<es>>, Mul(Div(rh, Num(100, 1)), es))

\* eq. 14: return rh / 100 * es
calc_ea_eq14(es, rh) == Run(<<es>>, Mul(Div(rh, Num(100, 1)), es))

\* calc_ea with the humidity extremes tested before the explicit ea
calc_ea_extremes_first(tmean, tmax, tmin, rhmax, rhmin, rh, ea) ==
    IF ~IsNone(rhmax)
    THEN calc_ea_eq11(calc_e0(tmax), calc_e0(tmin), rhmax, rhmin)
    ELSE IF ~IsNone(ea) THEN ea
    ELSE calc_ea_eq14(IF ~IsNone(tmax) THEN calc_es(None, tmax, tmin)
                      ELSE calc_e0(tmean), rh)

\* calc_ea falling back to the next path whenever an input group is
\* incomplete
calc_ea_complete_groups(tmean, tmax, tmin, rhmax, rhmin, rh, ea) ==
    IF ~IsNone(ea) THEN ea
    ELSE IF ~IsNone(rhmax) /\ ~IsNone(rhmin) /\ ~IsNone(tmax) /\ ~IsNone(tmin)
    THEN calc_ea_eq11(calc_e0(tmax), calc_e0(tmin), rhmax, rhmin)
    ELSE calc_ea_eq14(IF ~IsNone(tmax) /\ ~IsNone(tmin)
                      THEN calc_es(None, tmax, tmin)
                      ELSE calc_e0(tmean), rh)

calc_ea(tmean, tmax, tmin, rhmax, rhmin, rh, ea) ==
    IF ~IsNone(ea) THEN ea
    ELSE IF ~IsNone(rhmax)
    THEN calc_ea_eq11(calc_e0(tmax), calc_e0(tmin), rhmax, rhmin)
    ELSE calc_ea_eq14(IF ~IsNone(tmax) THEN calc_es(None, tmax, tmin)
                      ELSE calc_e0(tmean), rh)

\* days of a common year before each month
MonthStart == <<0, 31, 59, 90, 120, 151, 181, 212, 243, 273, 304, 334>>

\* the day of the year of a date [leap, month, day]
DayOfYear(date) ==
    MonthStart[date.month] + date.day
        + (IF date.leap /\ date.month > 2 THEN 1 ELSE 0)

\* strftime('%j'): the day of the year as three decimal digits
StrfJ(date) ==
    << DayOfYear(date) \div 100, (DayOfYear(date) \div 10) % 10,
       DayOfYear(date) % 10 >>

\* to_numeric of such a string
ToNumeric(str) == str[1] * 100 + str[2] * 10 + str[3]

\* Series(to_numeric(tindex.strftime('%j')), tindex, dtype=int)
day_of_year(tindex) ==
    [t \in 1..Len(tindex) |-> ToNumeric(StrfJ(tindex[t]))]

\* 2. * pi / 365. * j for an integer day j
YearAngle(j) == (2 * Pi * j) \div 365

\* 0.409 * sin(2. * pi / 365. * j - 1.39), element by element
solar_declination(j) ==
    [t \in 1..Len(j) |->
        FScale(FSin(Fin(YearAngle(j[t]) - (139 * SCALE) \div 100)),
               409, 1000)]

\* 1 + 0.033 * cos(2. * pi / 365. * j)
relative_distance(j) ==
    [t \in 1..Len(j) |->
        FAdd(Fin(SCALE), FScale(FCos(Fin(YearAngle(j[t]))), 33, 1000))]

\* a latitude is a Python float or a DataArray ("grid") of cells
IsGrid(lat) == lat.k = "grid"

\* arccos(-tan(sol_dec) * tan(lat)) for one day and one latitude
SunsetAngle1(dec, lat) == FArccos(FMul(FNeg(FTan(dec)), FTan(lat)))

\* a Series over the index for a scalar lat, (time, cell) for a DataArray
sunset_angle(sol_dec, lat) ==
    IF IsGrid(lat)
    THEN [t \in 1..Len(sol_dec) |->
             [c \in 1..Len(lat.v) |-> SunsetAngle1(sol_dec[t], lat.v[c])]]
    ELSE [t \in 1..Len(sol_dec) |-> SunsetAngle1(sol_dec[t], lat.v)]

\* numpy.nanmax of a set of array entries: nan when every entry is nan
NanMax(S) ==
    IF \A x \in S : IsNaN(x) THEN NaN
    ELSE CHOOSE x \in S :
            /\ ~IsNaN(x)
            /\ \A y \in S : ~FGt(y, x)

\* the day length taken for the half-day arc: 12 / pi * sangle
Hours_half(sangle) == FMul(FDiv(Fin(12 * SCALE), Fin(Pi)), sangle)

\* dl = 24 / pi * sangle
Hours(sangle) == FMul(FDiv(Fin(24 * SCALE), Fin(Pi)), sangle)

\* where((sol_dec > 0) & (isnan(dl)), nanmax(dl), dl), one entry
WhereDay(dec, d, nm) == IF FGt(dec, Fin(0)) /\ IsNaN(d) THEN nm ELSE d

\* where((sol_dec < 0) & (isnan(dl)), 0, dl), one entry
WhereNight(dec, d) == IF FLt(dec, Fin(0)) /\ IsNaN(d) THEN Fin(0) ELSE d

\* the two where() of daylight_hours for a scalar latitude
daylight_hours_where(sol_dec, dl) ==
    [k |-> "ndarray",
     v |-> [t \in 1..Len(dl) |->
              WhereNight(sol_dec[t],
                         WhereDay(sol_dec[t], dl[t],
                                  NanMax({dl[u] : u \in 1..Len(dl)})))]]

\* sol_dec = ((dl / dl).T * sol_dec.values).T, one entry
GridDec(d, dec) == FMul(FDiv(d, d), dec)

\* the entries of a (time, cell) array
Entries(dl) == {dl[t][c] : t \in 1..Len(dl), c \in 1..Len(dl[1])}

\* the two where() for a DataArray latitude
daylight_hours_where_grid(sol_dec, dl) ==
    [k |-> "ndarray",
     v |-> [t \in 1..Len(dl) |->
              [c \in 1..Len(dl[t]) |->
                  WhereNight(GridDec(dl[t][c], sol_dec[t]),
                             WhereDay(GridDec(dl[t][c], sol_dec[t]),
                                      dl[t][c], NanMax(Entries(dl))))]]]

\* dl for the sunset angles sangle
daylight_hours_dl(sol_dec, lat, sangle) ==
    IF IsGrid(lat)
    THEN daylight_hours_where_grid(sol_dec,
             [t \in 1..Len(sangle) |->
                 [c \in 1..Len(sangle[t]) |-> Hours(sangle[t][c])]])
    ELSE daylight_hours_where(sol_dec,
             [t \in 1..Len(sangle) |-> Hours(sangle[t])])

daylight_hours_sol_dec(sol_dec, lat) ==
    daylight_hours_dl(sol_dec, lat, sunset_angle(sol_dec, lat))

daylight_hours(tindex, lat) ==
    daylight_hours_sol_dec(solar_declination(day_of_year(tindex)), lat)

\* 118.08 / 3.141592654 * dr * (omega * xx + yy * sin(omega)), one entry
\* (3.141592654 is Pi at the resolution of SCALE)
extraterrestrial_r_1(dr, dec, lat, omega) ==
    FMul(FMul(FDiv(Fin((11808 * SCALE) \div 100), Fin(Pi)), dr),
         FAdd(FMul(omega, FMul(FSin(dec), FSin(lat))),
              FMul(FMul(FCos(dec), FCos(lat)), FSin(omega))))

extraterrestrial_r_return(dr, sol_dec, lat, omega) ==
    IF IsGrid(lat)
    THEN [k |-> "dataarray",
          v |-> [t \in 1..Len(dr) |->
                   [c \in 1..Len(lat.v) |->
                       extraterrestrial_r_1(dr[t], sol_dec[t], lat.v[c],
                                            omega[t][c])]]]
    ELSE Ser([t \in 1..Len(dr) |->
                 extraterrestrial_r_1(dr[t], sol_dec[t], lat.v, omega[t])])

extraterrestrial_r_j(j, lat) ==
    extraterrestrial_r_return(relative_distance(j), solar_declination(j),
                              lat,
                              sunset_angle(solar_declination(j), lat))

extraterrestrial_r(tindex, lat) ==
    extraterrestrial_r_j(day_of_year(tindex), lat)

\* The objects of calc_laieff: lai is the array the caller passed, laie the
\* array the local name laie refers to, shared tells whether the two names
\* refer to one object, ret is the value returned.

\* laie = lai without a copy: both names refer to the caller's array
Copy_alias(lai) ==
    [lai |-> lai, shared |-> TRUE, ret |-> None,
     laie |-> IF IsRaise(lai) THEN lai
              ELSE IF IsSeries(lai) THEN lai
              ELSE IF lai.k = "np" THEN Raise("TypeError")
              ELSE Raise("AttributeError")]

\* laie = lai.copy(): a new object holding the values of lai; only arrays
\* can be copied and assigned through a mask
Copy(lai) ==
    [lai |-> lai, shared |-> FALSE, ret |-> None,
     laie |-> IF IsRaise(lai) THEN lai
              ELSE IF IsSeries(lai) THEN lai
              ELSE IF lai.k = "np" THEN Raise("TypeError")
              ELSE Raise("AttributeError")]

\* the elements of old with vals stored where mask is true
Masked(old, mask, vals) ==
    Ser([i \in 1..Len(old.v) |-> IF mask[i] THEN vals[i] ELSE old.v[i]])

\* laie[mask] = vals: a store into the object laie refers to, which the
\* name lai sees as well when it refers to the same object
SetItem(e, mask, vals) ==
    IF IsRaise(e.laie) THEN e
    ELSE [e EXCEPT !.laie = Masked(e.laie, mask, vals),
                   !.lai = IF e.shared THEN Masked(e.laie, mask, vals)
                           ELSE @]

\* laie[(lai > 2) & (lai < 4)] = 2
LaiTwo(e) ==
    SetItem(e,
            [i \in 1..Len(e.lai.v) |->
                FGt(e.lai.v[i], Fin(2 * SCALE))
                    /\ FLt(e.lai.v[i], Fin(4 * SCALE))],
            [i \in 1..Len(e.lai.v) |-> Fin(2 * SCALE)])

\* laie[lai > 4] = 0.5 * lai
LaiHalf(e) ==
    SetItem(e,
            [i \in 1..Len(e.lai.v) |-> FGt(e.lai.v[i], Fin(4 * SCALE))],
            [i \in 1..Len(e.lai.v) |->
                FMul(Fin(SCALE \div 2), e.lai.v[i])])

\* laie[lai > 4] = 4
LaiFour(e) ==
    SetItem(e,
            [i \in 1..Len(e.lai.v) |-> FGt(e.lai.v[i], Fin(4 * SCALE))],
            [i \in 1..Len(e.lai.v) |-> Fin(4 * SCALE)])

\* return laie
ReturnLaie(e) == [e EXCEPT !.ret = e.laie]

\* return laie * 0.5
ReturnHalf(e) == [e EXCEPT !.ret = Mul(e.laie, Num(5, 10))]

\* the capped variants, from the copy on
calc_laieff_2(e) == ReturnLaie(LaiHalf(LaiTwo(e)))

calc_laieff_3(e) == ReturnHalf(LaiFour(e))

\* calc_laieff numbering the variants 1..4, as calc_res_surf documents them
calc_laieff_from_1(lai, lai_eff) ==
    IF lai_eff = 1 THEN Mul(Num(5, 10), lai)
    ELSE IF lai_eff = 2
    THEN Div(lai, Add(Mul(Num(3, 10), lai), Num(12, 10)))
    ELSE IF lai_eff = 3 THEN calc_laieff_2(Copy(lai)).ret
    ELSE IF lai_eff = 4 THEN calc_laieff_3(Copy(lai)).ret
    ELSE None

\* the value calc_laieff returns; a lai_eff outside 0..3 falls off the end
\* of the function
calc_laieff(lai, lai_eff) ==
    IF lai_eff = 0 THEN Mul(Num(5, 10), lai)
    ELSE IF lai_eff = 1
    THEN Div(lai, Add(Mul(Num(3, 10), lai), Num(12, 10)))
    ELSE IF lai_eff = 2 THEN calc_laieff_2(Copy(lai)).ret
    ELSE IF lai_eff = 3 THEN calc_laieff_3(Copy(lai)).ret
    ELSE None

\* the caller's lai after the call: only the masked stores of the capped
\* variants write to an array
calc_laieff_lai(lai, lai_eff) ==
    IF lai_eff = 2 THEN calc_laieff_2(Copy(lai)).lai
    ELSE IF lai_eff = 3 THEN calc_laieff_3(Copy(lai)).lai
    ELSE lai

\* the branch without the crop-height fallback for a missing lai
calc_res_surf_else_laieff(fco2, lai, r_l, lai_eff, croph) ==
    Run(<<fco2>>, Div(Mul(fco2, r_l), calc_laieff(lai, lai_eff)))

\* the branch of calc_res_surf without an explicit r_s
calc_res_surf_else(fco2, lai, r_l, lai_eff, croph) ==
    Run(<<fco2>>,
        IF IsNone(lai)
        THEN Div(Mul(fco2, r_l), Mul(Mul(Num(5, 10), croph), Num(24, 1)))
        ELSE Div(Mul(fco2, r_l), calc_laieff(lai, lai_eff)))

calc_res_surf(lai, r_s, srs, co2, r_l, lai_eff, croph) ==
    IF Truth(r_s) = "ValueError" THEN Raise("ValueError")
    ELSE IF Truth(r_s) = "True" THEN r_s
    ELSE calc_res_surf_else(Add(Num(1, 1), Mul(srs, Sub(co2, Num(300, 1)))),
                            lai, r_l, lai_eff, croph)

\* the logarithmic wind profile with d, zom and zoh from the crop height
calc_res_aero_log(d, zom, zoh, wind, zw, zh) ==
    Run(<<d, zom, zoh>>,
        Mul(log(Div(Sub(zw, d), zom)),
            Div(Div(log(Div(Sub(zh, d), zoh)), Num(1681, 10000)), wind)))

\* calc_res_aero numbering the methods 1 and 2
calc_res_aero_from_1(wind, croph, zw, zh, ra_method) ==
    IF ra_method = 1 THEN Div(Num(208, 1), wind)
    ELSE calc_res_aero_log(Mul(Num(667, 1000), croph),
                           Mul(Num(123, 1000), croph),
                           Mul(Num(123, 10000), croph), wind, zw, zh)

\* calc_res_aero dividing by wind as a numpy array (IEEE, never raising)
calc_res_aero_ieee(wind, croph, zw, zh, ra_method) ==
    IF ra_method = 0
    THEN IF Bad(Num(208, 1), wind) THEN Failure(Num(208, 1), wind)
         ELSE Pack(Np(Fin(0)), wind,
                   [i \in 1..Width(wind, wind) |->
                       FDiv(Fin(208 * SCALE), Elem(wind, i))])
    ELSE calc_res_aero_log(Mul(Num(667, 1000), croph),
                           Mul(Num(123, 1000), croph),
                           Mul(Num(123, 10000), croph), wind, zw, zh)

calc_res_aero(wind, croph, zw, zh, ra_method) ==
    IF ra_method = 0 THEN Div(Num(208, 1), wind)
    ELSE calc_res_aero_log(Mul(Num(667, 1000), croph),
                           Mul(Num(123, 1000), croph),
                           Mul(Num(123, 10000), croph), wind, zw, zh)

-----------------------------------------------------------------------------
(* Collaborators of the formulas that live outside the two modelled files  *)
(* (pyet/utils.py, pyet/rad_utils.py).                                     *)

\* validation of a relative humidity input; the value is handed on
check_rh(rh) == rh

\* net radiation: an explicit rn is passed through.  The formulas below are
\* called with rn supplied, the radiation calculator is not modelled.
calc_rad_net(rn) == rn

ClipF(f) == IF FLt(f, Fin(0)) THEN Fin(0) ELSE f

\* floor negative estimates to zero when clip_zero is set
clip_zeros(pet, clip_zero) ==
    IF IsRaise(pet) \/ ~clip_zero THEN pet
    ELSE IF IsSeries(pet)
         THEN Ser([i \in 1..Len(pet.v) |-> ClipF(pet.v[i])])
    ELSE [k |-> pet.k, v |-> ClipF(pet.v)]

\* pet.rename(name): a method of Series, not of scalars
rename(pet, name) ==
    IF IsRaise(pet) THEN pet
    ELSE IF IsSeries(pet) THEN [k |-> "series", v |-> pet.v, name |-> name]
    ELSE Raise("AttributeError")

-----------------------------------------------------------------------------
(* pyet/combination.py.  A formula runs its statements in order on a frame *)
(* e: the record of the call's arguments and locals, with e.raised the     *)
(* exception that ended the call (None while it runs).                     *)

Unset == [k |-> "unset"]

\* the frame of a call with arguments a and the locals of lcl
Frame(a, lcl) == [raised |-> None] @@ lcl @@ a

\* the statement  name = v
Assign(e, name, v) ==
    IF IsRaise(e.raised) THEN e
    ELSE IF IsRaise(v) THEN [e EXCEPT !.raised = v]
    ELSE [e EXCEPT ![name] = v]

\* the value returned by a call that ends in  return v
Return(e, v) == IF IsRaise(e.raised) THEN e.raised ELSE v

\* the statements every combination formula starts with
st_pressure(e) == Assign(e, "pressure", calc_press(e.elevation, e.pressure))

st_gamma(e) == Assign(e, "gamma", calc_psy(e.pressure, None))

st_dlt(e) == Assign(e, "dlt", calc_vpc(e.tmean))

st_lambd(e) == Assign(e, "lambd", calc_lambda(e.tmean))

st_ea(e) ==
    Assign(e, "ea",
           calc_ea(e.tmean, e.tmax, e.tmin, check_rh(e.rhmax),
                   check_rh(e.rhmin), check_rh(e.rh), e.ea))

st_es(e) == Assign(e, "es", calc_es(e.tmean, e.tmax, e.tmin))

st_rn(e) == Assign(e, "rn", calc_rad_net(e.rn))

\* pressure, gamma, dlt, lambd, ea and es in the order of the source
st_head(e) == st_es(st_ea(st_lambd(st_dlt(st_gamma(st_pressure(e))))))

\* the sum clipped whatever clip_zero says
st_pet_always(e) ==
    Assign(Assign(e, "pet", Add(e.num1, e.num2)), "pet",
           clip_zeros(Add(e.num1, e.num2), TRUE))

\* pet = num1 + num2; pet = clip_zeros(pet, clip_zero)
st_pet(e) ==
    Assign(Assign(e, "pet", Add(e.num1, e.num2)), "pet",
           clip_zeros(Add(e.num1, e.num2), e.clip_zero))

PenmanLocals ==
    [gamma |-> Unset, dlt |-> Unset, lambd |-> Unset, es |-> Unset,
     fu |-> Unset, den |-> Unset, num1 |-> Unset, num2 |-> Unset,
     pet |-> Unset]

penman_fu(e) == Assign(e, "fu", Mul(e.ku, Add(e.aw, Mul(e.bw, e.wind))))

penman_den(e) == Assign(e, "den", Mul(e.lambd, Add(e.dlt, e.gamma)))

penman_num1(e) == Assign(e, "num1", Div(Mul(e.dlt, Sub(e.rn, e.g)), e.den))

penman_num2(e) ==
    Assign(e, "num2",
           Div(Mul(Mul(e.gamma, Sub(e.es, e.ea)), e.fu), e.den))

\* the frame penman ends with
penman_frame(a) ==
    st_pet(penman_num2(penman_num1(penman_den(penman_fu(st_rn(
        st_head(Frame(a, PenmanLocals))))))))

PenmanReturn(e) == Return(e, rename(e.pet, "Penman"))

penman(a) == PenmanReturn(penman_frame(a))

ThomOliverLocals ==
    [gamma |-> Unset, dlt |-> Unset, lambd |-> Unset, es |-> Unset,
     res_a |-> Unset, res_s |-> Unset, gamma1 |-> Unset, w |-> Unset,
     den |-> Unset, num1 |-> Unset, num2 |-> Unset, pet |-> Unset]

\* zw and zh keep calc_res_aero's defaults
thom_oliver_res_a(e) ==
    Assign(e, "res_a",
           calc_res_aero(e.wind, e.croph, Num(2, 1), Num(2, 1), e.ra_method))

thom_oliver_res_s(e) ==
    Assign(e, "res_s",
           calc_res_surf(e.lai, e.r_s, e.srs, e.co2, e.r_l, e.lai_eff,
                         e.croph))

thom_oliver_gamma1(e) ==
    Assign(e, "gamma1",
           Mul(e.gamma, Add(Num(1, 1), Div(e.res_s, e.res_a))))

thom_oliver_w(e) == Assign(e, "w", Mul(e.aw, Add(Num(1, 1), Mul(e.bw, e.wind))))

thom_oliver_den(e) == Assign(e, "den", Mul(e.lambd, Add(e.dlt, e.gamma1)))

thom_oliver_num1(e) ==
    Assign(e, "num1", Div(Mul(e.dlt, Sub(e.rn, e.g)), e.den))

thom_oliver_num2(e) ==
    Assign(e, "num2",
           Div(Mul(Mul(Mul(Num(25, 10), e.gamma), Sub(e.es, e.ea)), e.w),
               e.den))

thom_oliver_tail(e) ==
    st_pet(thom_oliver_num2(thom_oliver_num1(thom_oliver_den(
        thom_oliver_w(st_rn(e))))))

\* the frame thom_oliver ends with
thom_oliver_frame(a) ==
    thom_oliver_tail(thom_oliver_gamma1(thom_oliver_res_s(thom_oliver_res_a(
        st_head(Frame(a, ThomOliverLocals))))))

ThomOliverReturn(e) == Return(e, rename(e.pet, "Thom_Oliver"))

thom_oliver(a) == ThomOliverReturn(thom_oliver_frame(a))

\* the locals of pm_asce, pm, pm_fao56, priestley_taylor, kimberly_penman
FormulaLocals ==
    [gamma |-> Unset, dlt |-> Unset, lambd |-> Unset, es |-> Unset,
     res_a |-> Unset, res_s |-> Unset, gamma1 |-> Unset, rho_a |-> Unset,
     j |-> Unset, w |-> Unset, den |-> Unset, num1 |-> Unset,
     num2 |-> Unset, pet |-> Unset]

\* pressure, gamma, dlt, ea and es of the formulas that use no lambd
st_head0(e) == st_es(st_ea(st_dlt(st_gamma(st_pressure(e)))))

\* den of the formula named f
formula_den(e, f) ==
    Assign(e, "den",
           CASE f = "pm_asce" ->
                    Add(e.dlt, Mul(e.gamma, Add(Num(1, 1), Mul(e.cd, e.wind))))
             [] f = "pm_fao56" -> Add(e.dlt, e.gamma1)
             [] f = "pm" -> Mul(e.lambd, Add(e.dlt, e.gamma1))
             [] f = "kimberly_penman" -> Mul(e.lambd, Add(e.dlt, e.gamma)))

\* num1 and num2 of the formula named f; in pm, rho_a * CP * kmin is rho_a
\* times the literal 1.013e-3 * 86400 = 87.5232
formula_nums(e, f) ==
    Assign(Assign(e, "num1",
                  CASE f \in {"pm_asce", "pm_fao56"} ->
                           Div(Mul(Mul(Num(408, 1000), e.dlt),
                                   Sub(e.rn, e.g)), e.den)
                    [] OTHER -> Div(Mul(e.dlt, Sub(e.rn, e.g)), e.den)),
           "num2",
           CASE f = "pm_asce" ->
                    Div(Mul(Mul(Div(Mul(e.gamma, e.cn),
                                    Add(e.tmean, Num(273, 1))), e.wind),
                            Sub(e.es, e.ea)), e.den)
             [] f = "pm_fao56" ->
                    Div(Div(Mul(Mul(Mul(e.gamma, Sub(e.es, e.ea)),
                                    Num(900, 1)), e.wind),
                            Add(e.tmean, Num(273, 1))), e.den)
             [] f = "pm" ->
                    Div(Div(Mul(Mul(LitMul(875232, 10000, e.rho_a),
                                    Sub(e.es, e.ea)), e.a_sh),
                            e.res_a), e.den)
             [] f = "kimberly_penman" ->
                    Div(Mul(Mul(e.gamma, Sub(e.es, e.ea)), e.w), e.den))

\* the tall-reference constants taken for every etype
pm_asce_etype_always(e) ==
    Assign(Assign(e, "cn", Num(1600, 1)), "cd", Num(38, 100))

\* if etype == "rs": cn = 1600; cd = 0.38
pm_asce_etype(e) ==
    IF e.etype = "rs"
    THEN Assign(Assign(e, "cn", Num(1600, 1)), "cd", Num(38, 100))
    ELSE e

pm_asce_frame(a) ==
    st_pet(formula_nums(formula_den(pm_asce_etype(st_rn(
        st_head0(Frame(a, FormulaLocals)))), "pm_asce"), "pm_asce"))

\* res_a and res_s of pm (zw and zh keep calc_res_aero's defaults)
pm_res(e) ==
    Assign(Assign(e, "res_a",
                  calc_res_aero(e.wind, e.croph, Num(2, 1), Num(2, 1),
                                e.ra_method)),
           "res_s",
           calc_res_surf(e.lai, e.r_s, e.srs, e.co2, e.r_l, e.lai_eff,
                         e.croph))

\* gamma1, rn and rho_a of pm
pm_gamma1(e) ==
    Assign(st_rn(Assign(e, "gamma1",
                        Mul(Div(Mul(e.gamma, e.a_sh), e.a_s),
                            Add(Num(1, 1), Div(e.res_s, e.res_a))))),
           "rho_a", calc_rho(e.pressure, e.tmean, e.ea))

pm_frame(a) ==
    st_pet(formula_nums(formula_den(pm_gamma1(pm_res(
        st_head(Frame(a, FormulaLocals)))), "pm"), "pm"))

\* if tmean is None: tmean = (tmax + tmin) / 2
pm_fao56_tmean(e) ==
    IF IsNone(e.tmean)
    THEN Assign(e, "tmean", Div(Add(e.tmax, e.tmin), Num(2, 1)))
    ELSE e

\* gamma1 = (gamma * (1 + 0.34 * wind))
pm_fao56_gamma1(e) ==
    Assign(e, "gamma1",
           Mul(e.gamma, Add(Num(1, 1), Mul(Num(34, 100), e.wind))))

pm_fao56_frame(a) ==
    st_pet(formula_nums(formula_den(st_rn(st_es(st_ea(pm_fao56_gamma1(
        st_dlt(st_gamma(st_pressure(pm_fao56_tmean(
            Frame(a, FormulaLocals))))))))), "pm_fao56"), "pm_fao56"))

\* pet = (alpha * dlt * (rn - g)) / (lambd * (dlt + gamma)), then clipped
priestley_taylor_pet(e) ==
    Assign(e, "pet",
           clip_zeros(Div(Mul(Mul(e.alpha, e.dlt), Sub(e.rn, e.g)),
                          Mul(e.lambd, Add(e.dlt, e.gamma))),
                      e.clip_zero))

priestley_taylor_frame(a) ==
    priestley_taylor_pet(st_rn(st_lambd(st_dlt(st_gamma(st_pressure(
        Frame(a, FormulaLocals)))))))

\* -x
Neg(x) == Mul(Num(-1, 1), x)

\* day_of_year(tmean.index) as a Series; tmean must be one to have an index
DaySeries(tmean, tindex) ==
    IF IsSeries(tmean)
    THEN Ser([t \in 1..Len(tindex) |-> Fin(day_of_year(tindex)[t] * SCALE)])
    ELSE Raise("AttributeError")

\* w = wind * (0.4 + 0.14 * exp(-((j - 173) / 58) ** 2) + (
\*         0.605 + 0.345 * exp((j - 243) / 80) ** 2))
kimberly_penman_w_return(wind, j) ==
    Mul(wind,
        Add(Add(Num(4, 10),
                Mul(Num(14, 100),
                    exp(Neg(Pow(Div(Sub(j, Num(173, 1)), Num(58, 1)),
                                Num(2, 1)))))),
            Add(Num(605, 1000),
                Mul(Num(345, 1000),
                    Pow(exp(Div(Sub(j, Num(243, 1)), Num(80, 1))),
                        Num(2, 1))))))

\* j = day_of_year(tmean.index), then w
kimberly_penman_w(e) ==
    Assign(Assign(e, "j", DaySeries(e.tmean, e.tindex)), "w",
           kimberly_penman_w_return(e.wind, DaySeries(e.tmean, e.tindex)))

kimberly_penman_frame(a) ==
    st_pet(formula_nums(formula_den(kimberly_penman_w(st_rn(
        st_head(Frame(a, FormulaLocals)))), "kimberly_penman"),
        "kimberly_penman"))

\* return pet.rename(name)
FormulaReturn(e, name) == Return(e, rename(e.pet, name))

-----------------------------------------------------------------------------
(* Bounds of the argument sets.                                            *)

\* length of every Series argument (one shared index)
SeriesLen == 2
\* wind speeds 0..MaxWind m/s
MaxWind == 3
\* ra_method in 0..MaxRaMethod
MaxRaMethod == 2
\* lai_eff in 0..MaxLaiEff
MaxLaiEff == 4
\* a date index has 1..IndexLen dates
IndexLen == 2

\* the Series base + step*i (in units of 1/100), i = 1..SeriesLen
SeriesOf(base, step) ==
    Ser([i \in 1..SeriesLen |-> Fin(Lit(base + step * i, 100))])

TmeanSeries == SeriesOf(1000, 500)
WindSeries == SeriesOf(-100, 100)
LaiSeries == SeriesOf(100, 200)

-----------------------------------------------------------------------------
(* The argument sets of the calls.                                         *)

CalcEaCalls ==
    [tmean : {None, Num(20, 1), TmeanSeries},
     tmax : {None, Num(25, 1)},
     tmin : {None, Num(15, 1)},
     rhmax : {None, Num(80, 1)},
     rhmin : {None, Num(40, 1)},
     rh : {None, Num(60, 1), SeriesOf(4000, 1000)},
     ea : {None, Num(0, 1), Num(14, 10), SeriesOf(100, 20)}]

CalcPressCalls ==
    [elevation : {None, Num(0, 1), Num(500, 1), Num(2000, 1)},
     pressure : {None, Num(0, 1), Num(90, 1), Num(1013, 10),
                 SeriesOf(9000, 500)}]

CalcResSurfCalls ==
    [lai : {None, Num(3, 1), LaiSeries},
     r_s : {None, Num(0, 1), Num(70, 1), SeriesOf(6000, 500)},
     srs : {Num(2, 1000)},
     co2 : {Num(300, 1), Num(350, 1)},
     r_l : {Num(100, 1)},
     lai_eff : 0..MaxLaiEff,
     croph : {Num(12, 100), Num(50, 100)}]

CalcResAeroCalls ==
    [wind : {None, WindSeries} \cup {Num(w, 1) : w \in 0..MaxWind},
     croph : {Num(12, 100), Num(50, 100), Num(3, 1)},
     zw : {Num(2, 1), Num(10, 1)},
     zh : {Num(2, 1)},
     ra_method : 0..MaxRaMethod]

CalcEsCalls ==
    [tmean : {None, Num(20, 1), TmeanSeries},
     tmax : {None, Num(25, 1)},
     tmin : {None, Num(15, 1)}]

CalcLaieffCalls ==
    [lai : {None, Num(1, 1), Num(3, 1), Num(4, 1), Num(5, 1), LaiSeries,
            SeriesOf(0, 100), SeriesOf(200, 200)},
     lai_eff : 0..MaxLaiEff]

\* days of each month of a leap year
MonthLen == <<31, 29, 31, 30, 31, 30, 31, 31, 30, 31, 30, 31>>

\* every date of a leap year and the last day of a common year
AllDates ==
    {dt \in [leap : {TRUE}, month : 1..12, day : 1..31] :
        dt.day <= MonthLen[dt.month]}
        \cup {[leap |-> FALSE, month |-> 12, day |-> 31]}

\* the March equinox and the two solstices of a common year
KeyDates ==
    {[leap |-> FALSE, month |-> 3, day |-> 21],
     [leap |-> FALSE, month |-> 6, day |-> 21],
     [leap |-> FALSE, month |-> 12, day |-> 21]}

\* the date indexes of at most IndexLen key dates
KeyIndexes == UNION {[1..n -> KeyDates] : n \in 1..IndexLen}

\* the equator, a mid latitude and both polar caps [rad]; two grids
Latitudes ==
    {Num(0, 1), Num(5, 10), Num(14, 10), Num(-14, 10),
     [k |-> "grid", v |-> <<Fin(SCALE \div 2), Fin((14 * SCALE) \div 10)>>],
     [k |-> "grid", v |-> <<Fin(-(14 * SCALE) \div 10), Fin(0)>>]}

DaylightHoursCalls ==
    [tindex : {<<dt>> : dt \in AllDates} \cup KeyIndexes, lat : Latitudes]

ExtraterrestrialRCalls == [tindex : KeyIndexes, lat : Latitudes]

\* tmax/tmin and rhmax/rhmin of a PET formula: supplied together or omitted
Extremes ==
    {<<None, None, None, None>>,
     <<Num(25, 1), Num(15, 1), None, None>>,
     <<Num(25, 1), Num(15, 1), Num(80, 1), Num(40, 1)>>}

\* the PET formulas are called with tmean a Series and rn supplied
PenmanCalls ==
    {[tmean |-> TmeanSeries, wind |-> wind, rn |-> rn, g |-> Num(0, 1),
      tmax |-> x[1], tmin |-> x[2], rhmax |-> x[3], rhmin |-> x[4],
      rh |-> rh, pressure |-> pressure, elevation |-> elevation, ea |-> ea,
      aw |-> Num(1, 1), bw |-> Num(537, 1000), ku |-> Num(643, 100),
      clip_zero |-> clip_zero] :
        wind \in {Num(2, 1), WindSeries},
        rn \in {Num(10, 1), Num(-20, 1)},
        x \in Extremes,
        rh \in {None, Num(60, 1)},
        pressure \in {None, Num(1013, 10)},
        elevation \in {None, Num(0, 1), Num(500, 1)},
        ea \in {None, Num(14, 10)},
        clip_zero \in BOOLEAN}

ThomOliverCalls ==
    {[tmean |-> TmeanSeries, wind |-> wind, rn |-> rn,
      g |-> Num(0, 1), tmax |-> None, tmin |-> None, rhmax |-> None,
      rhmin |-> None, rh |-> rh, pressure |-> pressure,
      elevation |-> elevation, ea |-> None, aw |-> Num(26, 10),
      bw |-> Num(536, 1000), lai |-> lai, croph |-> Num(12, 100),
      r_l |-> Num(100, 1), r_s |-> r_s, ra_method |-> ra_method,
      lai_eff |-> 0, srs |-> Num(9, 10000), co2 |-> Num(300, 1),
      clip_zero |-> clip_zero] :
        wind \in {Num(2, 1), WindSeries},
        rn \in {Num(10, 1), Num(-20, 1)},
        rh \in {None, Num(60, 1)},
        pressure \in {None, Num(1013, 10)},
        elevation \in {None, Num(0, 1)},
        lai \in {None, LaiSeries},
        r_s \in {None, Num(70, 1)},
        ra_method \in 0..MaxRaMethod,
        clip_zero \in BOOLEAN}

\* the index of the Series arguments: the SeriesLen days after day d0 of
\* month m
IndexFrom(m, d0) ==
    [t \in 1..SeriesLen |-> [leap |-> FALSE, month |-> m, day |-> d0 + t]]

\* calls of pm_asce, pm, pm_fao56, priestley_taylor and kimberly_penman: the
\* arguments a formula does not have keep one value and are not read
FormulaCalls(tmeans, winds, tindexes, etypes, lais, ra_methods) ==
    {[tmean |-> tmean, tindex |-> tindex, wind |-> wind, rn |-> rn,
      g |-> Num(0, 1), tmax |-> x[1], tmin |-> x[2], rhmax |-> x[3],
      rhmin |-> x[4], rh |-> Num(60, 1), pressure |-> pressure,
      elevation |-> Num(0, 1), ea |-> ea, cn |-> Num(900, 1),
      cd |-> Num(34, 100), etype |-> etype, alpha |-> Num(126, 100),
      lai |-> lai, croph |-> Num(12, 100), r_l |-> Num(100, 1),
      r_s |-> None, ra_method |-> ra_method, a_sh |-> Num(1, 1),
      a_s |-> Num(1, 1), lai_eff |-> 0, srs |-> Num(9, 10000),
      co2 |-> Num(300, 1), clip_zero |-> clip_zero] :
        tmean \in tmeans, tindex \in tindexes, wind \in winds,
        rn \in {Num(10, 1), Num(-20, 1)},
        x \in Extremes,
        pressure \in {None, Num(1013, 10)},
        ea \in {None, Num(14, 10)},
        etype \in etypes, lai \in lais, ra_method \in ra_methods,
        clip_zero \in BOOLEAN}

Winds == {Num(0, 1), Num(2, 1), WindSeries}

\* pm_asce for both reference surfaces, with cn and cd left at their
\* defaults 900 and 0.34 or passed as another pair
PmAsceCalls ==
    {[a EXCEPT !.cn = c[1], !.cd = c[2]] :
        a \in FormulaCalls({TmeanSeries}, Winds, {IndexFrom(6, 20)},
                           {"os", "rs"}, {None}, {0}),
        c \in {<<Num(900, 1), Num(34, 100)>>,
               <<Num(1000, 1), Num(5, 10)>>}}

-----------------------------------------------------------------------------
(* The state: one call, before and after it ran.                           *)

VARIABLES
    fn,      \* name of the function called
    args,    \* its arguments, a record
    result,  \* Pending, then the value returned or the exception raised
    locals   \* the frame a combination formula ended with

vars == <<fn, args, result, locals>>

Pending == [k |-> "pending"]
NoLocals == [raised |-> None]

Done == result # Pending

Init ==
    /\ \/ fn = "calc_ea" /\ args \in CalcEaCalls
       \/ fn = "calc_press" /\ args \in CalcPressCalls
       \/ fn = "calc_res_surf" /\ args \in CalcResSurfCalls
       \/ fn = "calc_res_aero" /\ args \in CalcResAeroCalls
       \/ fn = "calc_laieff" /\ args \in CalcLaieffCalls
       \/ fn = "calc_es" /\ args \in CalcEsCalls
       \/ fn = "daylight_hours" /\ args \in DaylightHoursCalls
       \/ fn = "extraterrestrial_r" /\ args \in ExtraterrestrialRCalls
       \/ fn = "penman" /\ args \in PenmanCalls
       \/ fn = "thom_oliver" /\ args \in ThomOliverCalls
       \/ fn = "pm_asce" /\ args \in PmAsceCalls
       \/ /\ fn = "pm"
          /\ args \in FormulaCalls({TmeanSeries}, Winds, {IndexFrom(6, 20)},
                                   {"os"}, {None, LaiSeries}, 0..MaxRaMethod)
       \/ /\ fn = "pm_fao56"
          /\ args \in FormulaCalls({None, TmeanSeries}, Winds,
                                   {IndexFrom(6, 20)}, {"os"}, {None}, {0})
       \/ /\ fn = "priestley_taylor"
          /\ args \in FormulaCalls({Num(20, 1), TmeanSeries}, {Num(2, 1)},
                                   {IndexFrom(6, 20)}, {"os"}, {None}, {0})
       \/ /\ fn = "kimberly_penman"
          /\ args \in FormulaCalls({Num(20, 1), TmeanSeries}, Winds,
                                   {IndexFrom(1, 0), IndexFrom(6, 20),
                                    IndexFrom(8, 29), IndexFrom(12, 20)},
                                   {"os"}, {None}, {0})
    /\ result = Pending
    /\ locals = NoLocals

CallCalcEa ==
    /\ fn = "calc_ea" /\ ~Done
    /\ result' = calc_ea(args.tmean, args.tmax, args.tmin, args.rhmax,
                         args.rhmin, args.rh, args.ea)
    /\ UNCHANGED <<fn, args, locals>>

CallCalcPress ==
    /\ fn = "calc_press" /\ ~Done
    /\ result' = calc_press(args.elevation, args.pressure)
    /\ UNCHANGED <<fn, args, locals>>

CallCalcResSurf ==
    /\ fn = "calc_res_surf" /\ ~Done
    /\ result' = calc_res_surf(args.lai, args.r_s, args.srs, args.co2,
                               args.r_l, args.lai_eff, args.croph)
    /\ UNCHANGED <<fn, args, locals>>

CallCalcResAero ==
    /\ fn = "calc_res_aero" /\ ~Done
    /\ result' = calc_res_aero(args.wind, args.croph, args.zw, args.zh,
                               args.ra_method)
    /\ UNCHANGED <<fn, args, locals>>

CallCalcEs ==
    /\ fn = "calc_es" /\ ~Done
    /\ result' = calc_es(args.tmean, args.tmax, args.tmin)
    /\ UNCHANGED <<fn, args, locals>>

\* the caller may repeat the call once with the objects it holds; locals
\* then keeps what the first call returned
CallCalcLaieff ==
    /\ fn = "calc_laieff" /\ locals = NoLocals
    /\ result' = calc_laieff(args.lai, args.lai_eff)
    /\ args' = [args EXCEPT
                   !.lai = calc_laieff_lai(args.lai, args.lai_eff)]
    /\ locals' = IF Done THEN [first |-> result] ELSE locals
    /\ UNCHANGED fn

CallDaylightHours ==
    /\ fn = "daylight_hours" /\ ~Done
    /\ result' = daylight_hours(args.tindex, args.lat)
    /\ UNCHANGED <<fn, args, locals>>

CallExtraterrestrialR ==
    /\ fn = "extraterrestrial_r" /\ ~Done
    /\ result' = extraterrestrial_r(args.tindex, args.lat)
    /\ UNCHANGED <<fn, args, locals>>

CallPenman ==
    /\ fn = "penman" /\ ~Done
    /\ locals' = penman_frame(args)
    /\ result' = PenmanReturn(locals')
    /\ UNCHANGED <<fn, args>>

CallThomOliver ==
    /\ fn = "thom_oliver" /\ ~Done
    /\ locals' = thom_oliver_frame(args)
    /\ result' = ThomOliverReturn(locals')
    /\ UNCHANGED <<fn, args>>

CallPmAsce ==
    /\ fn = "pm_asce" /\ ~Done
    /\ locals' = pm_asce_frame(args)
    /\ result' = FormulaReturn(locals', "PM_ASCE")
    /\ UNCHANGED <<fn, args>>

CallPm ==
    /\ fn = "pm" /\ ~Done
    /\ locals' = pm_frame(args)
    /\ result' = FormulaReturn(locals', "Penman_Monteith")
    /\ UNCHANGED <<fn, args>>

CallPmFao56 ==
    /\ fn = "pm_fao56" /\ ~Done
    /\ locals' = pm_fao56_frame(args)
    /\ result' = FormulaReturn(locals', "PM_FAO_56")
    /\ UNCHANGED <<fn, args>>

CallPriestleyTaylor ==
    /\ fn = "priestley_taylor" /\ ~Done
    /\ locals' = priestley_taylor_frame(args)
    /\ result' = FormulaReturn(locals', "Priestley_Taylor")
    /\ UNCHANGED <<fn, args>>

CallKimberlyPenman ==
    /\ fn = "kimberly_penman" /\ ~Done
    /\ locals' = kimberly_penman_frame(args)
    /\ result' = FormulaReturn(locals', "Kimberly_Penman")
    /\ UNCHANGED <<fn, args>>

Next ==
    \/ CallCalcEa
    \/ CallCalcPress
    \/ CallCalcResSurf
    \/ CallCalcResAero
    \/ CallCalcLaieff
    \/ CallCalcEs
    \/ CallDaylightHours
    \/ CallExtraterrestrialR
    \/ CallPenman
    \/ CallThomOliver
    \/ CallPmAsce
    \/ CallPm
    \/ CallPmFao56
    \/ CallPriestleyTaylor
    \/ CallKimberlyPenman

Spec == Init /\ [][Next]_vars

-----------------------------------------------------------------------------
(* Properties.                                                             *)

\* C1: calc_ea called with ea supplied (not None) returns exactly that ea,
\* whatever tmean, tmax, tmin, rhmax, rhmin and rh are (supplied or not).
C1_EaPassThrough ==
    (fn = "calc_ea" /\ Done /\ ~IsNone(args.ea)) => result = args.ea

\* an explicit ea (here the value 0) returned although the humidity
\* extremes and the mean humidity are supplied as well
C1_Witness ==
    /\ fn = "calc_ea" /\ Done
    /\ args.ea = Num(0, 1)
    /\ ~IsNone(args.rhmax) /\ ~IsNone(args.rhmin) /\ ~IsNone(args.rh)
    /\ result = args.ea

\* C2 (as claimed): calc_ea takes the humidity-extremes path only when
\* that input group is completely supplied and the mean-humidity path
\* otherwise.
C2_FallbackWhenIncomplete ==
    (fn = "calc_ea" /\ Done) =>
        result = calc_ea_complete_groups(args.tmean, args.tmax, args.tmin,
                                         args.rhmax, args.rhmin, args.rh,
                                         args.ea)

\* C2 (amended): exactly one of three paths in strict precedence: the
\* explicit ea if supplied; else, if rhmax is supplied, the humidity-extremes
\* formula e0(tmin)*rhmax/200 + e0(tmax)*rhmin/200, which raises TypeError
\* when rhmin, tmax or tmin is missing instead of falling back; else
\* rh/100*es with es = (e0(tmax)+e0(tmin))/2 when tmax is supplied and
\* e0(tmean) otherwise.
C2_StrictPrecedence ==
    (fn = "calc_ea" /\ Done) =>
        /\ ~IsNone(args.ea) => result = args.ea
        /\ (IsNone(args.ea) /\ ~IsNone(args.rhmax)) =>
              /\ result =
                    Add(Div(Mul(calc_e0(args.tmin), args.rhmax), Num(200, 1)),
                        Div(Mul(calc_e0(args.tmax), args.rhmin), Num(200, 1)))
              /\ (IsNone(args.rhmin) \/ IsNone(args.tmax) \/ IsNone(args.tmin))
                    => result = Raise("TypeError")
        /\ (IsNone(args.ea) /\ IsNone(args.rhmax) /\ ~IsNone(args.tmax)) =>
              result =
                 Mul(Div(args.rh, Num(100, 1)),
                     Div(Add(calc_e0(args.tmax), calc_e0(args.tmin)),
                         Num(2, 1)))
        /\ (IsNone(args.ea) /\ IsNone(args.rhmax) /\ IsNone(args.tmax)) =>
              result = Mul(Div(args.rh, Num(100, 1)), calc_e0(args.tmean))

\* rhmax without rhmin, with rh and tmean supplied: the call raises, it
\* does not fall back to the mean humidity
C2_Witness ==
    /\ fn = "calc_ea" /\ Done
    /\ IsNone(args.ea) /\ ~IsNone(args.rhmax) /\ IsNone(args.rhmin)
    /\ ~IsNone(args.rh) /\ ~IsNone(args.tmean)
    /\ ~IsNone(args.tmax) /\ ~IsNone(args.tmin)
    /\ result = Raise("TypeError")

NoHumidityInput ==
    /\ fn = "calc_ea"
    /\ IsNone(args.ea) /\ IsNone(args.rhmax) /\ IsNone(args.rhmin)
    /\ IsNone(args.rh)

\* C3 (as claimed): calc_ea with none of the three input groups supplied
\* raises no error and returns not-a-number.
C3_NaNWithoutInputs ==
    (NoHumidityInput /\ Done) =>
        /\ ~IsRaise(result)
        /\ \A i \in 1..Width(result, result) : IsNaN(Elem(result, i))

\* C3 (amended): calc_ea with none of the three input groups supplied
\* raises TypeError, whatever temperatures are supplied; it returns no value.
C3_TypeErrorWithoutInputs ==
    (NoHumidityInput /\ Done) => result = Raise("TypeError")

\* no humidity input at all, but the temperatures are there
C3_Witness ==
    /\ NoHumidityInput /\ Done
    /\ ~IsNone(args.tmean) /\ ~IsNone(args.tmax) /\ ~IsNone(args.tmin)
    /\ result = Raise("TypeError")

\* C4: calc_press returns the supplied pressure unchanged whenever pressure
\* is not None, for every elevation including None; the barometric formula
\* 101.3*((293 - 0.0065*elevation)/293)^5.26 is the result only when
\* pressure is None.
C4_PressurePassThrough ==
    (fn = "calc_press" /\ Done) =>
        /\ ~IsNone(args.pressure) => result = args.pressure
        /\ (IsNone(args.pressure) /\ ~IsNone(args.elevation)) =>
              /\ result.k = "py" /\ IsFin(result.v)
              /\ result =
                    Mul(Num(1013, 10),
                        Pow(Div(Sub(Num(293, 1),
                                    Mul(Num(65, 10000), args.elevation)),
                                Num(293, 1)),
                            Num(526, 100)))

\* a pressure of zero handed through although no elevation is supplied
C4_Witness ==
    /\ fn = "calc_press" /\ Done
    /\ args.pressure = Num(0, 1) /\ IsNone(args.elevation)
    /\ result = args.pressure

\* C5: with neither pressure nor elevation supplied, calc_press and the
\* calling PET formula (penman) complete without raising an error.
C5_NoErrorWithoutPressure ==
    (fn \in {"calc_press", "penman"} /\ Done
       /\ IsNone(args.pressure) /\ IsNone(args.elevation))
        => ~IsRaise(result)

\* C6: calc_res_surf returns an explicit r_s (any value that is not None, a
\* scalar or a Series) unchanged, whatever lai, srs, co2, r_l, lai_eff and
\* croph are.
C6_SurfacePassThrough ==
    (fn = "calc_res_surf" /\ Done /\ ~IsNone(args.r_s)) => result = args.r_s

fco2(a) == Add(Num(1, 1), Mul(a.srs, Sub(a.co2, Num(300, 1))))

\* C7 (as claimed): for every call without r_s, lai omitted included, the
\* result is fco2 * r_l / calc_laieff(lai, lai_eff).
C7_AlwaysEffectiveLai ==
    (fn = "calc_res_surf" /\ Done /\ IsNone(args.r_s)) =>
        result = Div(Mul(fco2(args), args.r_l),
                     calc_laieff(args.lai, args.lai_eff))

\* C7 (amended): with r_s None and lai supplied the result is
\* fco2 * r_l / calc_laieff(lai, lai_eff), fco2 = 1 + srs*(co2 - 300) (an
\* exception of calc_laieff, or its missing value, ends the call with that
\* error); with lai omitted it is fco2 * r_l / (0.5 * croph * 24), whatever
\* lai_eff is.
C7_EffectiveLaiOrCropHeight ==
    (fn = "calc_res_surf" /\ Done /\ IsNone(args.r_s)) =>
        /\ ~IsNone(args.lai) =>
              result = Div(Mul(fco2(args), args.r_l),
                           calc_laieff(args.lai, args.lai_eff))
        /\ IsNone(args.lai) =>
              /\ result = Div(Mul(fco2(args), args.r_l),
                              Mul(Mul(Num(5, 10), args.croph), Num(24, 1)))
              /\ result.k = "py" /\ IsFin(result.v)

\* no r_s, no lai, CO2 above the baseline: a finite resistance from the
\* crop height
C7_Witness ==
    /\ fn = "calc_res_surf" /\ Done
    /\ IsNone(args.r_s) /\ IsNone(args.lai)
    /\ args.co2 = Num(350, 1) /\ args.lai_eff = 2
    /\ result.k = "py" /\ IsFin(result.v)

\* C8: calc_res_aero with ra_method = 0 returns 208/wind for every wind,
\* independent of croph, zw and zh (wind = 2 gives 104); with ra_method = 1
\* it returns the logarithmic wind profile
\* log((zw-d)/zom) * (log((zh-d)/zoh) / 0.41^2 / wind).
C8_SimpleAeroResistance ==
    (fn = "calc_res_aero" /\ Done) =>
        /\ args.ra_method = 0 => result = Div(Num(208, 1), args.wind)
        /\ (args.ra_method = 0 /\ args.wind = Num(2, 1))
              => result = Py(Fin(104 * SCALE))
        /\ args.ra_method = 1 =>
              result =
                 Mul(log(Div(Sub(args.zw, Mul(Num(667, 1000), args.croph)),
                             Mul(Num(123, 1000), args.croph))),
                     Div(Div(log(Div(Sub(args.zh,
                                         Mul(Num(667, 1000), args.croph)),
                                     Mul(Num(123, 10000), args.croph))),
                             Num(1681, 10000)),
                         args.wind))

\* method 0 at wind 2 with a crop height and a wind height off the defaults
C8_Witness ==
    /\ fn = "calc_res_aero" /\ Done
    /\ args.ra_method = 0 /\ args.wind = Num(2, 1)
    /\ args.croph = Num(50, 100) /\ args.zw = Num(10, 1)
    /\ result = Py(Fin(104 * SCALE))

\* C9: in thom_oliver ra_method = 1 gives ra = 208/wind and ra_method = 2
\* gives the logarithmic form computed from the crop height, as its
\* docstring states.
C9_ThomOliverRaMethod ==
    (fn = "thom_oliver" /\ Done /\ locals.res_a # Unset) =>
        /\ args.ra_method = 1 => locals.res_a = Div(Num(208, 1), args.wind)
        /\ args.ra_method = 2 =>
              locals.res_a =
                 calc_res_aero_log(Mul(Num(667, 1000), args.croph),
                                   Mul(Num(123, 1000), args.croph),
                                   Mul(Num(123, 10000), args.croph),
                                   args.wind, Num(2, 1), Num(2, 1))

IsZero(f) == IsFin(f) /\ f.n = 0

\* a wind argument with a zero: the scalar 0 or a Series with a 0 element
ZeroWind ==
    /\ fn = "calc_res_aero" /\ ~IsNone(args.wind)
    /\ \E i \in 1..Width(args.wind, args.wind) : IsZero(Elem(args.wind, i))

LogZw(a) ==
    log(Div(Sub(a.zw, Mul(Num(667, 1000), a.croph)),
            Mul(Num(123, 1000), a.croph))).v

LogZh(a) ==
    log(Div(Sub(a.zh, Mul(Num(667, 1000), a.croph)),
            Mul(Num(123, 10000), a.croph))).v

C11_HalfAndRatio ==
    (fn = "calc_laieff" /\ Done /\ ~IsNone(args.lai)
       /\ args.lai_eff \in {0, 1}) =>
        /\ result.k = args.lai.k
        /\ \A i \in 1..Width(args.lai, args.lai) :
              Elem(result, i) =
                 IF args.lai_eff = 0
                 THEN FMul(Fin(SCALE \div 2), Elem(args.lai, i))
                 ELSE FDiv(Elem(args.lai, i),
                           FAdd(FScale(Elem(args.lai, i), 3, 10),
                                Fin((12 * SCALE) \div 10)))
        /\ (args.lai_eff = 0 /\ args.lai = Num(3, 1))
              => result = Py(Fin((15 * SCALE) \div 10))

\* both variants reached at lai = 3: 1.5, and 3/2.1
C11_Witness ==
    /\ fn = "calc_laieff" /\ Done /\ args.lai = Num(3, 1)
    /\ \/ args.lai_eff = 0 /\ result = Py(Fin((15 * SCALE) \div 10))
       \/ args.lai_eff = 1 /\ result.k = "py" /\ FGt(result.v, Fin(SCALE))

\* C12: calc_laieff with lai_eff = 2 returns, for every element of lai,
\* 0.5*lai when lai <= 4 and the plateau 0.5*4 = 2 when lai > 4.
C12_CappedHalfLai ==
    (fn = "calc_laieff" /\ Done /\ args.lai_eff = 2 /\ IsSeries(args.lai)) =>
        /\ IsSeries(result)
        /\ \A i \in 1..Len(args.lai.v) :
              result.v[i] =
                 IF FGt(args.lai.v[i], Fin(4 * SCALE)) THEN Fin(2 * SCALE)
                 ELSE FMul(Fin(SCALE \div 2), args.lai.v[i])

\* C13: calc_res_surf numbers lai_eff as its docstring does: without r_s and
\* with lai given, lai_eff = 1 gives fco2*r_l/(0.5*lai) and lai_eff = 2 gives
\* fco2*r_l/(lai/(0.3*lai + 1.2)).
C13_DocstringNumbering ==
    (fn = "calc_res_surf" /\ Done /\ IsNone(args.r_s) /\ ~IsNone(args.lai)) =>
        /\ args.lai_eff = 1 =>
              result = Div(Mul(fco2(args), args.r_l),
                           Mul(Num(5, 10), args.lai))
        /\ args.lai_eff = 2 =>
              result = Div(Mul(fco2(args), args.r_l),
                           Div(args.lai,
                               Add(Mul(Num(3, 10), args.lai), Num(12, 10))))

\* the sunset angles of the call's index at the scalar latitude lat
SunsetAngles(lat) ==
    sunset_angle(solar_declination(day_of_year(args.tindex)), lat)

\* C14: daylight_hours with lat = 0 returns 12 hours (to the resolution of
\* the fixed-point arithmetic, 0.001 h) for every date of the index, every
\* day of the year 1..366, because the sunset angle is pi/2 for every
\* declination.
C14_EquatorTwelveHours ==
    (fn = "daylight_hours" /\ Done /\ args.lat = Num(0, 1)) =>
        \A t \in 1..Len(args.tindex) :
            /\ SunsetAngles(args.lat)[t] = Fin(Pi \div 2)
            /\ IsFin(result.v[t])
            /\ Abs(result.v[t].n - 12 * SCALE) <= SCALE \div 1000

\* day 366 at the equator
C14_Witness ==
    /\ fn = "daylight_hours" /\ Done /\ args.lat = Num(0, 1)
    /\ day_of_year(args.tindex) = <<366>>
    /\ Abs(result.v[1].n - 12 * SCALE) <= SCALE \div 1000

\* C15: for a scalar latitude the result of daylight_hours has no NaN entry:
\* an entry whose sunset-angle argument -tan(dec)*tan(lat) is outside
\* [-1, 1] is 24 hours (polar day) or 0 hours (polar night), for every
\* index, one made of such days only included.
C15_PolarDayAndNight ==
    (fn = "daylight_hours" /\ Done /\ ~IsGrid(args.lat)) =>
        \A t \in 1..Len(args.tindex) :
            /\ ~IsNaN(result.v[t])
            /\ IsNaN(SunsetAngles(args.lat)[t])
                  => result.v[t] \in {Fin(24 * SCALE), Fin(0)}

\* C16: for a gridded latitude daylight_hours yields at every (time, cell)
\* the value it yields at that time for the cell's latitude passed as a
\* scalar over the same index, and no entry is undefined.
C16_GridAsScalar ==
    (fn = "daylight_hours" /\ Done /\ IsGrid(args.lat)) =>
        \A t \in 1..Len(args.tindex) : \A c \in 1..Len(args.lat.v) :
            /\ result.v[t][c]
                  = daylight_hours(args.tindex, Py(args.lat.v[c])).v[t]
            /\ ~IsNaN(result.v[t][c])

\* C17: extraterrestrial_r returns a defined number, not NaN and not an
\* error, also for every date and latitude whose sunset-angle argument is
\* outside [-1, 1].
C17_RadiationDefined ==
    (fn = "extraterrestrial_r" /\ Done) =>
        \A t \in 1..Len(args.tindex) :
            IF IsGrid(args.lat)
            THEN \A c \in 1..Len(args.lat.v) : IsFin(result.v[t][c])
            ELSE IsFin(result.v[t])

\* C19 (as claimed): calc_es returns (calc_e0(tmax) + calc_e0(tmin))/2
\* exactly when both tmax and tmin are given and calc_e0(tmean) in every
\* other case, and never raises when tmean is supplied.
C19_AverageWhenBoth ==
    (fn = "calc_es" /\ Done) =>
        /\ (~IsNone(args.tmax) /\ ~IsNone(args.tmin)) =>
              result = Div(Add(calc_e0(args.tmax), calc_e0(args.tmin)),
                           Num(2, 1))
        /\ (IsNone(args.tmax) \/ IsNone(args.tmin)) =>
              result = calc_e0(args.tmean)
        /\ ~IsNone(args.tmean) => ~IsRaise(result)

\* C19 (amended): calc_es returns (calc_e0(tmax) + calc_e0(tmin))/2 whenever
\* tmax is given, irrespective of tmean, and then raises TypeError when tmin
\* is missing, also when tmean is supplied; it returns calc_e0(tmean)
\* whenever tmax is None (a tmin given alone is ignored), and then never
\* raises when tmean is supplied.
C19_AverageWhenTmax ==
    (fn = "calc_es" /\ Done) =>
        /\ ~IsNone(args.tmax) =>
              /\ result = Div(Add(calc_e0(args.tmax), calc_e0(args.tmin)),
                              Num(2, 1))
              /\ IsNone(args.tmin) => result = Raise("TypeError")
              /\ ~IsNone(args.tmin) => result.k = "np"
        /\ IsNone(args.tmax) =>
              /\ result = calc_e0(args.tmean)
              /\ ~IsNone(args.tmean) => ~IsRaise(result)

\* tmax without tmin: TypeError although tmean is there
C19_Witness ==
    /\ fn = "calc_es" /\ Done
    /\ ~IsNone(args.tmax) /\ IsNone(args.tmin) /\ ~IsNone(args.tmean)
    /\ result = Raise("TypeError")

\* the PET formulas of combination.py and the names they give the result
PetName ==
    [penman |-> "Penman", pm_asce |-> "PM_ASCE", pm |-> "Penman_Monteith",
     pm_fao56 |-> "PM_FAO_56", priestley_taylor |-> "Priestley_Taylor",
     kimberly_penman |-> "Kimberly_Penman", thom_oliver |-> "Thom_Oliver"]

\* the estimate before clipping, from the locals the call ended with
Unclipped ==
    IF fn = "priestley_taylor"
    THEN Div(Mul(Mul(locals.alpha, locals.dlt), Sub(locals.rn, locals.g)),
             Mul(locals.lambd, Add(locals.dlt, locals.gamma)))
    ELSE Add(locals.num1, locals.num2)

\* C18: for each PET formula that returns a series: with clip_zero every
\* element is >= 0 and an element that was non-negative before clipping is
\* unchanged; without clip_zero the returned values are the unclipped
\* computation element for element, negative values included; the clipped
\* values are what is returned under the formula's name.
C18_ClipZero ==
    (fn \in DOMAIN PetName /\ Done /\ IsSeries(result)) =>
        /\ IsSeries(Unclipped) /\ Len(result.v) = Len(Unclipped.v)
        /\ \A i \in 1..Len(result.v) :
              /\ args.clip_zero => ~FLt(result.v[i], Fin(0))
              /\ (args.clip_zero /\ ~FLt(Unclipped.v[i], Fin(0)))
                    => result.v[i] = Unclipped.v[i]
              /\ (args.clip_zero /\ FLt(Unclipped.v[i], Fin(0)))
                    => result.v[i] = Fin(0)
              /\ ~args.clip_zero => result.v[i] = Unclipped.v[i]
        /\ result.name = PetName[fn]

\* a negative FAO-56 estimate kept because clip_zero is off
C18_Witness ==
    /\ fn = "pm_fao56" /\ Done /\ IsSeries(result) /\ ~args.clip_zero
    /\ \E i \in 1..Len(result.v) : FLt(result.v[i], Fin(0))
    /\ result.v = Unclipped.v

\* the day-of-year terms of the documented wind function
KimberlyTerm(j, peak, width) ==
    exp(Neg(Pow(Div(Sub(j, Num(peak, 1)), Num(width, 1)), Num(2, 1))))

\* C20: the wind function of kimberly_penman is the documented one for every
\* wind speed and day of year J:
\* w = wind*(0.4 + 0.14*exp(-((J-173)/58)^2))
\*     + (0.605 + 0.345*exp(-((J-243)/80)^2)).
C20_KimberlyWindFunction ==
    (fn = "kimberly_penman" /\ Done /\ locals.w # Unset) =>
        locals.w =
           Add(Mul(args.wind,
                   Add(Num(4, 10),
                       Mul(Num(14, 100), KimberlyTerm(locals.j, 173, 58)))),
               Add(Num(605, 1000),
                   Mul(Num(345, 1000), KimberlyTerm(locals.j, 243, 80))))

\* the raw day lengths 24/pi*sunset_angle of the call's index at its
\* scalar latitude, before the two where()
RawHours ==
    [t \in 1..Len(args.tindex) |-> Hours(SunsetAngles(args.lat)[t])]

\* C21: for a scalar latitude daylight_hours returns every finite raw value
\* 24/pi*sunset_angle unchanged, turns every NaN of a day with positive
\* declination into the maximum finite raw value of the whole series, and
\* every NaN of a day with negative declination into 0.
C21_PostProcessing ==
    (fn = "daylight_hours" /\ Done /\ ~IsGrid(args.lat)) =>
        \A t \in 1..Len(args.tindex) :
            /\ IsFin(RawHours[t]) => result.v[t] = RawHours[t]
            /\ (IsNaN(RawHours[t])
                  /\ FGt(solar_declination(day_of_year(args.tindex))[t],
                         Fin(0)))
                  => /\ IsFin(result.v[t])
                     /\ \E u \in 1..Len(args.tindex) :
                           result.v[t] = RawHours[u]
                     /\ \A u \in 1..Len(args.tindex) :
                           ~FGt(RawHours[u], result.v[t])
            /\ (IsNaN(RawHours[t])
                  /\ FLt(solar_declination(day_of_year(args.tindex))[t],
                         Fin(0)))
                  => result.v[t] = Fin(0)

\* C22: calc_laieff never modifies the lai the caller passed, for every
\* lai_eff in 0..3 (the masked stores of the capped variants go to a copy):
\* a call leaves the caller's lai element for element as it was, and a
\* second call with the same arguments returns what the first returned.
C22_CallerLaiUntouched ==
    [][(fn = "calc_laieff" /\ args.lai_eff \in 0..3) =>
          /\ args'.lai = args.lai
          /\ Done => result' = result]_vars

\* the second call of a capped variant that stored through both masks
C22_Witness ==
    /\ fn = "calc_laieff" /\ Done /\ locals # NoLocals
    /\ args.lai_eff = 2 /\ IsSeries(args.lai)
    /\ \E i \in 1..Len(args.lai.v) :
          /\ FGt(args.lai.v[i], Fin(2 * SCALE))
          /\ FLt(args.lai.v[i], Fin(4 * SCALE))
          /\ result.v[i] = Fin(2 * SCALE)
    /\ \E i \in 1..Len(args.lai.v) :
          /\ FGt(args.lai.v[i], Fin(4 * SCALE))
          /\ result.v[i] = FMul(Fin(SCALE \div 2), args.lai.v[i])
    /\ result = locals.first

\* the sunset-angle argument -tan(dec)*tan(lat) of day t of the call's
\* index at its scalar latitude
SunsetArg(t) ==
    FMul(FNeg(FTan(solar_declination(day_of_year(args.tindex))[t])),
         FTan(args.lat.v))

\* C23: for every day and every scalar latitude of either hemisphere whose
\* sunset-angle argument is outside [-1, 1], daylight_hours sets the entry
\* to the saturated maximum (the largest finite raw value of the series)
\* exactly when the sun never sets (argument < -1) and to 0 exactly when
\* it never rises (argument > 1), a southern latitude on a day of negative
\* declination included.
C23_PolarDayBothHemispheres ==
    (fn = "daylight_hours" /\ Done /\ ~IsGrid(args.lat)) =>
        \A t \in 1..Len(args.tindex) :
            /\ FLt(SunsetArg(t), Fin(-SCALE))
                  => result.v[t]
                        = NanMax({RawHours[u] : u \in 1..Len(args.tindex)})
            /\ FGt(SunsetArg(t), Fin(SCALE)) => result.v[t] = Fin(0)

\* C24: calc_laieff with lai_eff = 2 is monotonically non-decreasing in
\* the leaf area index: for any two elements lai1 <= lai2 of lai, the
\* boundary values 2 and 4 included, the effective LAI of lai1 is at most
\* the effective LAI of lai2.
C24_MonotoneZhang ==
    (fn = "calc_laieff" /\ Done /\ args.lai_eff = 2 /\ IsSeries(args.lai)) =>
        \A i, j \in 1..Len(args.lai.v) :
            ~FGt(args.lai.v[i], args.lai.v[j])
                => ~FGt(result.v[i], result.v[j])

\* pm_fao56 called with the inputs of the call
Fao56 == pm_fao56_frame(args)

\* pm_asce called with the inputs of the call and cn = 1600, cd = 0.38
AsceTall ==
    FormulaReturn(pm_asce_frame([args EXCEPT !.cn = Num(1600, 1),
                                             !.cd = Num(38, 100)]),
                  "PM_ASCE")

\* the call leaves etype, cn and cd at their defaults "os", 900 and 0.34
AsceDefaults ==
    /\ fn = "pm_asce" /\ Done /\ args.etype = "os"
    /\ args.cn = Num(900, 1) /\ args.cd = Num(34, 100)

\* pm_asce with etype = "rs" uses cn = 1600 and cd = 0.38, whatever cn and
\* cd were passed
AsceTallConstants ==
    (fn = "pm_asce" /\ Done /\ args.etype = "rs") =>
        /\ locals.cn = Num(1600, 1) /\ locals.cd = Num(38, 100)
        /\ result = AsceTall

====
